---- MODULE Spec2Model ----
(***************************************************************************)
(* Volcano Explorer (src/volcano_app.py): one Streamlit script that loads  *)
(* an uploaded CSV, cleans its header, selects rows, filters them by the   *)
(* sidebar criteria and renders summaries, charts and a map.  Every user   *)
(* interaction re-runs the script from the top with the widgets' state     *)
(* kept by the session.                                                    *)
(*                                                                         *)
(* A table (pandas DataFrame) is [def, cols, rows]: cols is the sequence   *)
(* of column labels, rows the sequence of rows, each row the sequence of   *)
(* its cells in column order.  A cell is <<v>> for a value v and <<>> for  *)
(* a missing value (NaN).  A label is the sequence of its words and        *)
(* whitespace characters.  Elevations are decimals carried as integers in  *)
(* units of 1/ElevUnit metre.                                              *)
(***************************************************************************)
EXTENDS Integers, Sequences, FiniteSets, TLC

VARIABLES uploaded_file, pc, df, w_country, w_range, country, min_elev,
          max_elev, filtered_df, min_elev_val, max_elev_val, top5, out

vars == <<uploaded_file, pc, df, w_country, w_range, country, min_elev,
          max_elev, filtered_df, min_elev_val, max_elev_val, top5, out>>

\* ------------------------------------------------------------ bounds
\* The longest uploaded data set (rows below the header).
MaxRows == 3

\* ------------------------------------------------------------ values
NaN == <<>>
Val(v) == <<v>>
ElevUnit == 2
Metres(m) == m * ElevUnit

NoTable == [def |-> FALSE, cols |-> <<>>, rows |-> <<>>]
Table(c, r) == [def |-> TRUE, cols |-> c, rows |-> r]

Whitespace == {" ", "\t"}

L_Name == <<"Volcano", " ", "Name">>
L_Country == <<"Country">>
L_Type == <<"Primary", " ", "Volcano", " ", "Type">>
L_Latitude == <<"Latitude">>
L_Longitude == <<"Longitude">>
L_ElevMeters == <<"Elevation", " ", "(Meters)">>
L_ElevM == <<"Elevation", " ", "(m)">>
L_Region == <<"Region">>
L_Tooltip == <<"tooltip">>

keep_cols == <<L_Name, L_Country, L_Type, L_Latitude, L_Longitude, L_ElevMeters>>

dropna_without_longitude == {L_Latitude, L_Country, L_ElevMeters}

\* dropna(subset=[...])
dropna_subset == {L_Latitude, L_Longitude, L_Country, L_ElevMeters}

slider_default == <<0, 5000>>

DefaultN == 5

PieThreshold == 5

SuccessTotal == 10

\* ------------------------------------------------------------ uploads
\* A raw row, in the raw file's column order:
\* name, country, region, type, latitude, longitude, elevation.
RawRow(name, ctry, type, lat, lon, elev) ==
    <<name, ctry, Val("Andes"), type, lat, lon, elev>>

RowUniverse ==
    { RawRow(Val("A"), Val("Chile"), Val("Strato"), Val(10), Val(20), Val(Metres(1000))),
      RawRow(Val("T"), Val("Chile"), NaN,           Val(12), Val(22), Val(Metres(1000))),
      RawRow(NaN,      Val("Chile"), Val("Strato"), Val(13), Val(23), Val(Metres(2000))),
      RawRow(Val("H"), Val("chile"), Val("Strato"), Val(14), Val(24), Val(Metres(5000) + 1)),
      RawRow(Val("L"), Val("chile"), Val("Shield"), Val(15), Val(25), Val(-1)),
      RawRow(Val("Q"), NaN,          Val("Shield"), Val(16), Val(26), Val(Metres(1500))),
      RawRow(Val("R"), Val("Chile"), Val("Shield"), NaN,     Val(27), Val(Metres(1500))),
      RawRow(Val("S"), Val("Chile"), Val("Shield"), Val(18), NaN,     Val(Metres(1500))),
      RawRow(Val("U"), Val("Chile"), Val("Shield"), Val(19), Val(29), NaN) }

RawHeader(ctryLabel, elevLabel) ==
    <<L_Name, ctryLabel, L_Region, L_Type, L_Latitude, L_Longitude, elevLabel>>

CountryLabels == { L_Country, <<" ">> \o L_Country }

ElevLabels ==
    { L_ElevMeters, L_ElevM, <<" ">> \o L_ElevM \o <<" ">>, L_ElevM \o <<"\t">>,
      L_ElevMeters \o <<" ">>, <<"Elev">> }

RECURSIVE SeqsUpTo(_, _)
SeqsUpTo(S, n) ==
    IF n = 0 THEN { <<>> }
    ELSE LET shorter == SeqsUpTo(S, n - 1)
         IN  shorter \cup { Append(s, x) : s \in { t \in shorter : Len(t) = n - 1 }, x \in S }

SampleRows ==
    << RawRow(Val("A"), Val("Chile"), Val("Strato"), Val(10), Val(20), Val(Metres(1000))),
       RawRow(Val("H"), Val("chile"), Val("Strato"), Val(14), Val(24), Val(Metres(5000) + 1)) >>

\* What the user can upload: a byte stream that does not parse, a sample data
\* set under every header variant, and every data set under the clean header.
Files ==
    { [present |-> TRUE, parses |-> FALSE, cols |-> <<>>, rows |-> <<>>] }
    \cup { [present |-> TRUE, parses |-> TRUE, cols |-> RawHeader(c, e), rows |-> SampleRows]
             : c \in CountryLabels, e \in ElevLabels }
    \cup { [present |-> TRUE, parses |-> TRUE, cols |-> RawHeader(L_Country, L_ElevMeters), rows |-> r]
             : r \in SeqsUpTo(RowUniverse, MaxRows) }

\* uploaded_file is None
NoFile == [present |-> FALSE, parses |-> FALSE, cols |-> <<>>, rows |-> <<>>]

\* ------------------------------------------------------------ pure helpers
RECURSIVE LStrip(_)
LStrip(s) == IF s # <<>> /\ Head(s) \in Whitespace THEN LStrip(Tail(s)) ELSE s

RECURSIVE RStrip(_)
RStrip(s) ==
    IF s # <<>> /\ s[Len(s)] \in Whitespace THEN RStrip(SubSeq(s, 1, Len(s) - 1)) ELSE s

\* str.strip()
Strip(s) == RStrip(LStrip(s))

\* rename(columns={"Elevation (m)": "Elevation (Meters)"})
Rename(l) == IF l = L_ElevM THEN L_ElevMeters ELSE l

RenameThenStrip(cols) == [i \in 1..Len(cols) |-> Strip(Rename(cols[i]))]

\* df.columns.str.strip(), then df.rename(...)
NormalizeCols(cols) == [i \in 1..Len(cols) |-> Rename(Strip(cols[i]))]

HasCol(t, l) == \E i \in 1..Len(t.cols) : t.cols[i] = l
ColIndex(t, l) == CHOOSE i \in 1..Len(t.cols) : t.cols[i] = l
Cell(t, row, l) == row[ColIndex(t, l)]

\* df[labels]
Project(t, labels) ==
    Table(labels,
          [r \in 1..Len(t.rows) |->
              [j \in 1..Len(labels) |-> Cell(t, t.rows[r], labels[j])]])

\* df.dropna(subset=...)
DropNa(t, subset) ==
    LET Keep(row) == \A l \in subset : Cell(t, row, l) # NaN
    IN  Table(t.cols, SelectSeq(t.rows, Keep))

\* ------------------------------------------------------------ script
\* The uncaught exceptions that end a run: pc names the exception raised.
Faults == {"NameError", "KeyError", "ValueError", "TypeError"}

Init ==
    /\ uploaded_file = NoFile
    /\ pc = "await_upload"
    /\ df = NoTable
    /\ w_country = ""
    /\ w_range = <<>>
    /\ country = ""
    /\ min_elev = 0
    /\ max_elev = 0
    /\ filtered_df = NoTable
    /\ min_elev_val = NaN
    /\ max_elev_val = NaN
    /\ top5 = NoTable
    /\ out = {}

ScriptVarsReset ==
    /\ df' = NoTable
    /\ country' = ""
    /\ min_elev' = 0
    /\ max_elev' = 0
    /\ filtered_df' = NoTable
    /\ min_elev_val' = NaN
    /\ max_elev_val' = NaN
    /\ top5' = NoTable
    /\ out' = {}

\* st.file_uploader: the user drops a file; the script runs with it.
Upload ==
    /\ pc = "await_upload"
    /\ \E f \in Files : uploaded_file' = f
    /\ pc' = "read"
    /\ UNCHANGED <<df, w_country, w_range, country, min_elev, max_elev,
                   filtered_df, min_elev_val, max_elev_val, top5, out>>

ReadCsvNoStop ==
    /\ pc = "read"
    /\ IF uploaded_file.parses
       THEN /\ df' = Table(uploaded_file.cols, uploaded_file.rows)
            /\ out' = out
       ELSE /\ df' = df
            /\ out' = out \cup {"error"}
    /\ pc' = "normalize"
    /\ UNCHANGED <<uploaded_file, w_country, w_range, country, min_elev, max_elev,
                   filtered_df, min_elev_val, max_elev_val, top5>>

\* pd.read_csv in try/except: on failure st.error, then st.stop.
ReadCsv ==
    /\ pc = "read"
    /\ IF uploaded_file.parses
       THEN /\ df' = Table(uploaded_file.cols, uploaded_file.rows)
            /\ out' = out
            /\ pc' = "normalize"
       ELSE /\ df' = df
            /\ out' = out \cup {"error"}
            /\ pc' = "stopped"
    /\ UNCHANGED <<uploaded_file, w_country, w_range, country, min_elev, max_elev,
                   filtered_df, min_elev_val, max_elev_val, top5>>

\* Header cleaning; a df that was never bound is a NameError.
Normalize ==
    /\ pc = "normalize"
    /\ IF df.def
       THEN /\ df' = Table(NormalizeCols(df.cols), df.rows)
            /\ out' = out \cup {"columns"}
            /\ pc' = "select"
       ELSE /\ UNCHANGED <<df, out>>
            /\ pc' = "NameError"
    /\ UNCHANGED <<uploaded_file, w_country, w_range, country, min_elev, max_elev,
                   filtered_df, min_elev_val, max_elev_val, top5>>

\* df = df[keep_cols]; a label that is absent is a KeyError.
SelectColumns ==
    /\ pc = "select"
    /\ IF \A j \in 1..Len(keep_cols) : HasCol(df, keep_cols[j])
       THEN /\ df' = Project(df, keep_cols)
            /\ pc' = "dropna"
       ELSE /\ df' = df
            /\ pc' = "KeyError"
    /\ UNCHANGED <<uploaded_file, w_country, w_range, country, min_elev, max_elev,
                   filtered_df, min_elev_val, max_elev_val, top5, out>>

DropRows ==
    /\ pc = "dropna"
    /\ df' = DropNa(df, dropna_subset)
    /\ pc' = "sidebar"
    /\ UNCHANGED <<uploaded_file, w_country, w_range, country, min_elev, max_elev,
                   filtered_df, min_elev_val, max_elev_val, top5, out>>

\* ------------------------------------------------------------ sidebar
SetMin(S) == CHOOSE x \in S : \A y \in S : x <= y
SetMax(S) == CHOOSE x \in S : \A y \in S : x >= y
Min2(a, b) == IF a <= b THEN a ELSE b
Max2(a, b) == IF a >= b THEN a ELSE b

Elevs(t) == { Cell(t, t.rows[i], L_ElevMeters)[1] : i \in 1..Len(t.rows) }

\* Series.min() / Series.max(): NaN on an empty column.
ColMin(t) == IF t.rows = <<>> THEN NaN ELSE Val(SetMin(Elevs(t)))
ColMax(t) == IF t.rows = <<>> THEN NaN ELSE Val(SetMax(Elevs(t)))

PyCeil(e) == IF e >= 0 THEN (e + ElevUnit - 1) \div ElevUnit ELSE -((-e) \div ElevUnit)

\* int(x): truncation toward zero, of a value carried in 1/ElevUnit metre.
PyInt(e) == IF e >= 0 THEN e \div ElevUnit ELSE -((-e) \div ElevUnit)

\* df['Country'].unique()
Countries(t) == { Cell(t, t.rows[i], L_Country)[1] : i \in 1..Len(t.rows) }

\* Python's order on the country names of RowUniverse (code points).
AlphaRank(c) == CASE c = "Chile" -> 1 [] c = "chile" -> 2 [] OTHER -> 3

RECURSIVE sorted(_)
sorted(S) ==
    IF S = {} THEN <<>>
    ELSE LET m == CHOOSE x \in S : \A y \in S : AlphaRank(x) <= AlphaRank(y)
         IN  <<m>> \o sorted(S \ {m})

\* The slider's bounds: min_value and max_value as passed, which the widget
\* widens until they hold the default value.
SliderLow(t) == Min2(PyInt(ColMin(t)[1]), slider_default[1])
SliderHigh(t) == Max2(PyInt(ColMax(t)[1]), slider_default[2])

\* The positions the user drags a handle to: the ends, the default window and
\* the integer part of each elevation in the data.
SliderStops(t) ==
    { x \in {SliderLow(t), SliderHigh(t), slider_default[1], slider_default[2]}
              \cup { PyInt(e) : e \in Elevs(t) }
        : SliderLow(t) <= x /\ x <= SliderHigh(t) }

\* st.sidebar.selectbox and st.sidebar.slider; int(nan) on an empty data set
\* is a ValueError.
Sidebar ==
    /\ pc = "sidebar"
    /\ IF df.rows = <<>>
       THEN /\ pc' = "ValueError"
            /\ UNCHANGED <<country, min_elev, max_elev, out>>
       ELSE /\ country' = IF w_country = "" THEN sorted(Countries(df))[1] ELSE w_country
            /\ min_elev' = IF w_range = <<>> THEN slider_default[1] ELSE w_range[1]
            /\ max_elev' = IF w_range = <<>> THEN slider_default[2] ELSE w_range[2]
            /\ out' = out \cup {"sidebar"}
            /\ pc' = "filter"
    /\ UNCHANGED <<uploaded_file, df, w_country, w_range,
                   filtered_df, min_elev_val, max_elev_val, top5>>

\* ------------------------------------------------------------ filter
FilterExclusiveUpper(t, c, lo, hi) ==
    LET Keep(row) == /\ Cell(t, row, L_Country)[1] = c
                     /\ Cell(t, row, L_ElevMeters)[1] >= lo * ElevUnit
                     /\ Cell(t, row, L_ElevMeters)[1] < hi * ElevUnit
    IN  Table(t.cols, SelectSeq(t.rows, Keep))

\* df[(Country == c) & (Elevation >= lo) & (Elevation <= hi)]
FilterTable(t, c, lo, hi) ==
    LET Keep(row) == /\ Cell(t, row, L_Country)[1] = c
                     /\ Cell(t, row, L_ElevMeters)[1] >= lo * ElevUnit
                     /\ Cell(t, row, L_ElevMeters)[1] <= hi * ElevUnit
    IN  Table(t.cols, SelectSeq(t.rows, Keep))

Filter ==
    /\ pc = "filter"
    /\ filtered_df' = FilterTable(df, country, min_elev, max_elev)
    /\ out' = out \cup {"table"}
    /\ pc' = "extremes"
    /\ UNCHANGED <<uploaded_file, df, w_country, w_range, country, min_elev,
                   max_elev, min_elev_val, max_elev_val, top5>>

\* ------------------------------------------------------------ summaries
get_min_max_elevation(data) == <<ColMin(data), ColMax(data)>>

\* Called on the view as it is, then both callouts are written.
Extremes ==
    /\ pc = "extremes"
    /\ min_elev_val' = get_min_max_elevation(filtered_df)[1]
    /\ max_elev_val' = get_min_max_elevation(filtered_df)[2]
    /\ out' = out \cup {"lowest", "highest"}
    /\ pc' = "names"
    /\ UNCHANGED <<uploaded_file, df, w_country, w_range, country, min_elev,
                   max_elev, filtered_df, top5>>

\* ', '.join(names): a name that is NaN (a float) is a TypeError.
NameList ==
    /\ pc = "names"
    /\ IF \E i \in 1..Len(filtered_df.rows) :
             Cell(filtered_df, filtered_df.rows[i], L_Name) = NaN
       THEN /\ pc' = "TypeError"
            /\ out' = out
       ELSE /\ pc' = "pie"
            /\ out' = out \cup {"names"}
    /\ UNCHANGED <<uploaded_file, df, w_country, w_range, country, min_elev,
                   max_elev, filtered_df, min_elev_val, max_elev_val, top5>>

\* value_counts(): the count of each type that is not NaN.
TypeCount(t, ty) ==
    Cardinality({ i \in 1..Len(t.rows) : Cell(t, t.rows[i], L_Type) = Val(ty) })
Types(t) ==
    { Cell(t, t.rows[i], L_Type)[1] :
        i \in { k \in 1..Len(t.rows) : Cell(t, t.rows[k], L_Type) # NaN } }

RECURSIVE SumCounts(_, _)
SumCounts(t, S) ==
    IF S = {} THEN 0
    ELSE LET ty == CHOOSE x \in S : TRUE
         IN  TypeCount(t, ty) + SumCounts(t, S \ {ty})

PieOthers(t) == SumCounts(t, { ty \in Types(t) : TypeCount(t, ty) <= PieThreshold })

PieChart ==
    /\ pc = "pie"
    /\ out' = IF filtered_df.rows # <<>>
              THEN out \cup {"pie"}
                       \cup (IF PieOthers(filtered_df) > 0 THEN {"pie_other"} ELSE {})
              ELSE out
    /\ pc' = "bar"
    /\ UNCHANGED <<uploaded_file, df, w_country, w_range, country, min_elev,
                   max_elev, filtered_df, min_elev_val, max_elev_val, top5>>

Perms(n) == { f \in [1..n -> 1..n] : \A i, j \in 1..n : f[i] = f[j] => i = j }

ElevOf(t, i) == Cell(t, t.rows[i], L_ElevMeters)[1]

\* sort_values(ascending=False) with the default kind (quicksort, which is
\* not stable): any order of the rows that descends by elevation.
SortedDescending(t) ==
    { [i \in 1..Len(t.rows) |-> t.rows[f[i]]] :
        f \in { g \in Perms(Len(t.rows)) :
                  \A i \in 1..(Len(t.rows) - 1) : ElevOf(t, g[i]) >= ElevOf(t, g[i + 1]) } }

\* .head(n)
Head_n(rows, n) == SubSeq(rows, 1, Min2(n, Len(rows)))

\* The results get_top_volcanoes(data, n) can return.
get_top_volcanoes(data, n) ==
    { Table(data.cols, Head_n(rows, n)) : rows \in SortedDescending(data) }

BarChart ==
    /\ pc = "bar"
    /\ \E t \in get_top_volcanoes(filtered_df, DefaultN) :
          /\ top5' = t
          /\ out' = out \cup {"bar_header"}
                        \cup (IF t.rows # <<>> THEN {"bar"} ELSE {})
    /\ pc' = "map"
    /\ UNCHANGED <<uploaded_file, df, w_country, w_range, country, min_elev,
                   max_elev, filtered_df, min_elev_val, max_elev_val>>

\* "..." + name + "..." + str(elevation) + "..." + type: NaN when the name or
\* the type is NaN.
TooltipOf(t, row) ==
    IF Cell(t, row, L_Name) = NaN \/ Cell(t, row, L_Type) = NaN
    THEN NaN
    ELSE Val(<<Cell(t, row, L_Name)[1], Cell(t, row, L_ElevMeters)[1],
               Cell(t, row, L_Type)[1]>>)

\* filtered_df["tooltip"] = ...: the column is set on filtered_df itself.
SetTooltip(t) ==
    Table(IF HasCol(t, L_Tooltip) THEN t.cols ELSE Append(t.cols, L_Tooltip),
          [i \in 1..Len(t.rows) |->
              IF HasCol(t, L_Tooltip)
              THEN [t.rows[i] EXCEPT ![ColIndex(t, L_Tooltip)] = TooltipOf(t, t.rows[i])]
              ELSE Append(t.rows[i], TooltipOf(t, t.rows[i]))])

Map ==
    /\ pc = "map"
    /\ IF filtered_df.rows # <<>>
       THEN /\ filtered_df' = SetTooltip(filtered_df)
            /\ out' = out \cup {"map_header", "map"}
       ELSE /\ filtered_df' = filtered_df
            /\ out' = out \cup {"map_header"}
    /\ pc' = "rows"
    /\ UNCHANGED <<uploaded_file, df, w_country, w_range, country, min_elev,
                   max_elev, min_elev_val, max_elev_val, top5>>

\* for _, row in filtered_df.iterrows(): st.write(...)
PerRow ==
    /\ pc = "rows"
    /\ out' = IF filtered_df.rows # <<>> THEN out \cup {"rows"} ELSE out
    /\ pc' = "feedback"
    /\ UNCHANGED <<uploaded_file, df, w_country, w_range, country, min_elev,
                   max_elev, filtered_df, min_elev_val, max_elev_val, top5>>

Feedback ==
    /\ pc = "feedback"
    /\ LET total == Len(filtered_df.rows)
       IN  out' = IF total >= SuccessTotal THEN out \cup {"success"}
                  ELSE IF total = 0 THEN out \cup {"warning"}
                  ELSE out
    /\ pc' = "done"
    /\ UNCHANGED <<uploaded_file, df, w_country, w_range, country, min_elev,
                   max_elev, filtered_df, min_elev_val, max_elev_val, top5>>

\* ------------------------------------------------------------ interaction
\* A run that has ended with the sidebar drawn accepts the next interaction.
Interactive == pc \in {"done", "TypeError"} /\ "sidebar" \in out

\* The user picks another country: the session keeps the choice and the
\* script runs again from the top.
SelectCountry ==
    /\ Interactive
    /\ \E c \in Countries(df) :
          /\ c # country
          /\ w_country' = c
    /\ pc' = "read"
    /\ ScriptVarsReset
    /\ UNCHANGED <<uploaded_file, w_range>>

\* The user drags the range slider.
SlideRange ==
    /\ Interactive
    /\ \E lo, hi \in SliderStops(df) :
          /\ lo <= hi
          /\ <<lo, hi>> # <<min_elev, max_elev>>
          /\ w_range' = <<lo, hi>>
    /\ pc' = "read"
    /\ ScriptVarsReset
    /\ UNCHANGED <<uploaded_file, w_country>>

\* A run that ended (completed, stopped or faulted) is run again as it is.
Rerun ==
    /\ pc \in {"done", "stopped"} \cup Faults
    /\ pc' = "read"
    /\ ScriptVarsReset
    /\ UNCHANGED <<uploaded_file, w_country, w_range>>

Next ==
    \/ Upload
    \/ ReadCsv
    \/ Normalize
    \/ SelectColumns
    \/ DropRows
    \/ Sidebar
    \/ Filter
    \/ Extremes
    \/ NameList
    \/ PieChart
    \/ BarChart
    \/ Map
    \/ PerRow
    \/ Feedback
    \/ SelectCountry
    \/ SlideRange
    \/ Rerun

Spec == Init /\ [][Next]_vars

\* ------------------------------------------------------------ reference
\* The naive reading of the uploaded file, against which the script's tables
\* are compared: a Record is the six attributes of one raw row.
Record(row) ==
    [name |-> row[1], country |-> row[2], type |-> row[4],
     latitude |-> row[5], longitude |-> row[6], elevation |-> row[7]]

Complete(r) ==
    r.country # NaN /\ r.latitude # NaN /\ r.longitude # NaN /\ r.elevation # NaN

RECURSIVE RefCleanOf(_)
RefCleanOf(rows) ==
    IF rows = <<>> THEN <<>>
    ELSE (IF Complete(Record(Head(rows))) THEN <<Record(Head(rows))>> ELSE <<>>)
         \o RefCleanOf(Tail(rows))

RefClean == RefCleanOf(uploaded_file.rows)

Matches(r, c, lo, hi) ==
    /\ r.country = Val(c)
    /\ lo * ElevUnit <= r.elevation[1]
    /\ r.elevation[1] <= hi * ElevUnit

RECURSIVE RefFilter(_, _, _, _)
RefFilter(recs, c, lo, hi) ==
    IF recs = <<>> THEN <<>>
    ELSE (IF Matches(Head(recs), c, lo, hi) THEN <<Head(recs)>> ELSE <<>>)
         \o RefFilter(Tail(recs), c, lo, hi)

\* The six attributes of each row of a table laid out as keep_cols.
AsRecords(t) ==
    [i \in 1..Len(t.rows) |->
        [name |-> t.rows[i][1], country |-> t.rows[i][2], type |-> t.rows[i][3],
         latitude |-> t.rows[i][4], longitude |-> t.rows[i][5],
         elevation |-> t.rows[i][6]]]

RefCountries == { RefClean[i].country[1] : i \in 1..Len(RefClean) }
RefElevs == { RefClean[i].elevation[1] : i \in 1..Len(RefClean) }

\* The criteria the widgets show: the session's choice, or the default.
CurrentCountry ==
    IF w_country # "" THEN w_country
    ELSE CHOOSE c \in RefCountries : \A d \in RefCountries : AlphaRank(c) <= AlphaRank(d)
CurrentLower == IF w_range # <<>> THEN w_range[1] ELSE 0
CurrentUpper == IF w_range # <<>> THEN w_range[2] ELSE 5000

Trunc(e) ==
    IF e >= 0 THEN (e - (e % ElevUnit)) \div ElevUnit
    ELSE -(((-e) - ((-e) % ElevUnit)) \div ElevUnit)

\* Script positions.
AfterNormalize ==
    {"select", "dropna", "sidebar", "filter", "extremes", "names", "pie", "bar",
     "map", "rows", "feedback", "done", "KeyError", "ValueError", "TypeError"}
AfterDropna ==
    {"sidebar", "filter", "extremes", "names", "pie", "bar", "map", "rows",
     "feedback", "done", "ValueError", "TypeError"}
AfterSidebar ==
    {"filter", "extremes", "names", "pie", "bar", "map", "rows", "feedback",
     "done", "TypeError"}
AfterFilter ==
    {"extremes", "names", "pie", "bar", "map", "rows", "feedback", "done",
     "TypeError"}
AfterBar == {"map", "rows", "feedback", "done"}

\* ------------------------------------------------------------ claims

\* C1: once the Filter step has run, the Filtered View holds exactly the
\* Records of the clean Dataset whose country equals the selected country and
\* whose elevation lies between the selected bounds (both inclusive), in the
\* Dataset's order, and the criteria used are the ones the widgets hold now.
C1_FilterExact ==
    pc \in AfterFilter =>
        /\ country = CurrentCountry
        /\ min_elev = CurrentLower
        /\ max_elev = CurrentUpper
        /\ AsRecords(filtered_df)
             = RefFilter(RefClean, CurrentCountry, CurrentLower, CurrentUpper)

\* A run completed after the country and the range were both changed, with a
\* view that keeps some Records, drops others and has one on its upper bound.
C1_Witness ==
    /\ pc = "done"
    /\ w_country # ""
    /\ w_range # <<>>
    /\ filtered_df.rows # <<>>
    /\ Len(filtered_df.rows) < Len(df.rows)
    /\ \E i \in 1..Len(filtered_df.rows) :
          ElevOf(filtered_df, i) = max_elev * ElevUnit

\* C2: after projection and dropna, the clean Dataset is exactly the input
\* rows with country, latitude, longitude and elevation all present, in
\* their order, and it stays so through every later stage.
C2_CleanDataset ==
    pc \in AfterDropna =>
        /\ df.cols = keep_cols
        /\ AsRecords(df) = RefClean
        /\ \A i \in 1..Len(df.rows) : Complete(AsRecords(df)[i])

\* A completed run whose upload lost some rows and kept others.
C2_Witness ==
    /\ pc = "done"
    /\ df.rows # <<>>
    /\ Len(df.rows) < Len(uploaded_file.rows)

\* C3 (as claimed): top5 holds min(n, |view|) rows of the view, descending
\* by elevation, rows of equal elevation in the order they had in the view.
C3_TopNStable ==
    pc \in AfterBar =>
        /\ Len(top5.rows) = Min2(DefaultN, Len(filtered_df.rows))
        /\ \A i \in 1..(Len(top5.rows) - 1) : ElevOf(top5, i) >= ElevOf(top5, i + 1)
        /\ \E f \in [1..Len(top5.rows) -> 1..Len(filtered_df.rows)] :
              /\ \A i, j \in 1..Len(top5.rows) : f[i] = f[j] => i = j
              /\ \A i \in 1..Len(top5.rows) :
                    AsRecords(top5)[i] = AsRecords(filtered_df)[f[i]]
              /\ \A i, j \in 1..Len(top5.rows) :
                    (i < j /\ ElevOf(top5, i) = ElevOf(top5, j)) => f[i] < f[j]

\* C4 (as claimed): with an empty Filtered View the run does not fault,
\* renders no pie, bar or map and no lowest/highest callout, and ends with
\* the 'no volcanoes match' warning.
C4_EmptyViewQuiet ==
    (pc \in AfterFilter /\ filtered_df.rows = <<>>) =>
        /\ pc \notin Faults
        /\ out \cap {"pie", "bar", "map", "lowest", "highest"} = {}
        /\ pc = "done" => "warning" \in out

\* C5: when the upload does not parse, the error is reported and nothing
\* after the read runs: no table is bound and nothing else is rendered.
C5_ParseFailureHalts ==
    (uploaded_file.present /\ ~uploaded_file.parses) =>
        /\ pc \in {"read", "stopped"}
        /\ pc = "stopped" => "error" \in out
        /\ out \subseteq {"error"}
        /\ ~df.def /\ ~filtered_df.def /\ ~top5.def

\* The run of an unparseable upload has stopped with the error shown.
C5_Witness ==
    /\ uploaded_file.present
    /\ ~uploaded_file.parses
    /\ pc = "stopped"
    /\ "error" \in out

NoOuterSpace(l) == l = <<>> \/ (l[1] \notin Whitespace /\ l[Len(l)] \notin Whitespace)

Padded(l) ==
    { a \o l \o b : a, b \in {<<>>, <<" ">>, <<"\t">>} }

\* The raw header names every required column, up to surrounding whitespace
\* and the legacy elevation label.
Acceptable ==
    /\ \A j \in 1..(Len(keep_cols) - 1) :
          \E i \in 1..Len(uploaded_file.cols) : uploaded_file.cols[i] \in Padded(keep_cols[j])
    /\ \E i \in 1..Len(uploaded_file.cols) :
          uploaded_file.cols[i] \in Padded(L_ElevM) \cup Padded(L_ElevMeters)

\* C6: every step that looks a column up by name runs on the normalized
\* header: no label has leading or trailing whitespace, none is
\* "Elevation (m)", and a file whose labels are the required ones up to
\* surrounding whitespace and the legacy elevation label is not refused.
C6_NormalizedFirst ==
    pc \in AfterNormalize =>
        /\ "columns" \in out
        /\ \A i \in 1..Len(df.cols) : NoOuterSpace(df.cols[i]) /\ df.cols[i] # L_ElevM
        /\ Acceptable => pc # "KeyError"

\* A completed run of a file whose elevation column is " Elevation (m) ".
C6_Witness ==
    /\ pc = "done"
    /\ \E i \in 1..Len(uploaded_file.cols) :
          uploaded_file.cols[i] = <<" ">> \o L_ElevM \o <<" ">>

\* C7 (as claimed): the selected range is ordered and lies within the clean
\* Dataset's actual minimum and maximum elevation; the selected country is
\* one of the Dataset's.
C7_WithinDatasetRange ==
    pc \in AfterSidebar =>
        /\ min_elev <= max_elev
        /\ SetMin(RefElevs) <= min_elev * ElevUnit
        /\ max_elev * ElevUnit <= SetMax(RefElevs)
        /\ country \in RefCountries

\* C7 (amended): the selected range is ordered and lies within the
\* selector's bounds, which are min(0, int(min elevation)) and
\* max(5000, int(max elevation)); the selected country is one of the
\* Dataset's.
C7_WithinSliderBounds ==
    pc \in AfterSidebar =>
        /\ min_elev <= max_elev
        /\ Min2(0, Trunc(SetMin(RefElevs))) <= min_elev
        /\ max_elev <= Max2(5000, Trunc(SetMax(RefElevs)))
        /\ country \in RefCountries

\* A completed run after the user moved the range to where the data does
\* not reach and picked a country.
C7_Witness ==
    /\ pc = "done"
    /\ w_country # ""
    /\ w_range # <<>>
    /\ w_range # slider_default
    /\ min_elev * ElevUnit < SetMin(RefElevs)

\* C8 (as claimed): a Record with no name or no type, and the four required
\* fields, is kept by the Row Selector, is in the Filtered View whenever it
\* meets the criteria, and the run it is in does not fault.
C8_MissingNameTolerated ==
    \A k \in 1..Len(uploaded_file.rows) :
        LET r == Record(uploaded_file.rows[k])
        IN  (Complete(r) /\ (r.name = NaN \/ r.type = NaN)) =>
              /\ pc \in AfterDropna =>
                    \E i \in 1..Len(df.rows) : AsRecords(df)[i] = r
              /\ (pc \in AfterFilter /\ Matches(r, country, min_elev, max_elev)) =>
                    /\ \E i \in 1..Len(filtered_df.rows) : AsRecords(filtered_df)[i] = r
                    /\ pc \notin Faults

\* C9 (as claimed): once the clean Dataset and the Filtered View are
\* produced, no later step of the run changes either table.
C9_TablesNotEdited ==
    [][ /\ (pc \in AfterDropna /\ pc' \in AfterDropna) => df' = df
        /\ (pc \in AfterFilter /\ pc' \in AfterFilter) => filtered_df' = filtered_df
      ]_vars

\* C10 (as claimed): with the range at the selector's ends, int(min) and
\* int(max), the view holds every Record of the selected country.
C10_WidestRangeReachesAll ==
    ( /\ pc \in AfterFilter
      /\ min_elev = Trunc(SetMin(RefElevs))
      /\ max_elev = Trunc(SetMax(RefElevs))
      /\ min_elev = SliderLow(df)
      /\ max_elev = SliderHigh(df) ) =>
        \A i \in 1..Len(RefClean) :
            RefClean[i].country = Val(country) =>
                \E j \in 1..Len(filtered_df.rows) : AsRecords(filtered_df)[j] = RefClean[i]
====
